---- MODULE Spec2Model ----
(***************************************************************************)
(* Model of the Filecoin Pin storage provider                              *)
(* (src/storage/filecoin_pin_provider.py): put, get and verify of          *)
(* FilecoinPinStorageProvider, with the external filecoin-pin process, the *)
(* temporary directories and the IPFS gateways as the environment.         *)
(*                                                                         *)
(* A Python str is a sequence of one-character strings.  An Optional value  *)
(* is None (the empty sequence) or Some(v) (the one-element sequence <<v>>).*)
(***************************************************************************)
EXTENDS Integers, Sequences, FiniteSets, TLC

None == <<>>
Some(v) == <<v>>
\* the value of an Optional that is not None
The(o) == o[1]
\* Python's truth value of an Optional[str]: neither None nor ""
Truthy(o) == o # None /\ The(o) # <<>>
\* a dict with no keys
EmptyDict == [k \in {} |-> <<>>]

(***************************************************************************)
(* Bounds of the model.                                                    *)
(***************************************************************************)
\* the text the external tool prints is a concatenation of at most this many
\* pieces of OutputPieces
MaxOutputPieces == 4
\* the strings handed to verify are concatenations of at most this many
\* pieces of UriPieces
MaxUriPieces == 3
\* the number of delete calls in a behaviour
MaxDeleteCalls == 2

(***************************************************************************)
(* String literals of the source.                                          *)
(***************************************************************************)
IpfsPrefix == <<"i","p","f","s",":","/","/">>
RootCidLabel == <<"R","o","o","t"," ","C","I","D",":">>
PieceCidLabel == <<"P","i","e","c","e"," ","C","I","D",":">>
DataSetIdLabel == <<"D","a","t","a"," ","S","e","t"," ","I","D",":">>
\* the three characters before " Hash:" in the source are U+00E2 U+201D U+201A
HashLinePrefix == <<"U+00E2","U+201D","U+201A"," ","H","a","s","h",":">>
HashLabel == <<"H","a","s","h",":">>
IpfsLoadedLabel == <<"I","P","F","S"," ","c","o","n","t","e","n","t"," ","l","o","a","d","e","d"," ","(">>
JsonMime == <<"a","p","p","l","i","c","a","t","i","o","n","/","j","s","o","n">>
TextMimePrefix == <<"t","e","x","t","/">>
TextPlainMime == <<"t","e","x","t","/","p","l","a","i","n">>
JsonFilename == <<"c","h","a","o","s","c","h","a","i","n","_","p","r","o","o","f",".","j","s","o","n">>
TextFilename == <<"c","h","a","o","s","c","h","a","i","n","_","p","a","y","l","o","a","d",".","t","x","t">>
BinFilename == <<"c","h","a","o","s","c","h","a","i","n","_","p","a","y","l","o","a","d",".","b","i","n">>
ProviderName == <<"f","i","l","e","c","o","i","n","-","p","i","n">>
NoRootCidError == <<"f","i","l","e","c","o","i","n","-","p","i","n"," ","c","o","m","p","l","e","t","e","d"," ","w","i","t","h","o","u","t"," ","r","e","t","u","r","n","i","n","g"," ","a"," ","R","o","o","t"," ","C","I","D">>
CommandFailedError == <<"f","i","l","e","c","o","i","n","-","p","i","n"," ","c","o","m","m","a","n","d"," ","f","a","i","l","e","d">>
TimeoutError == <<"f","i","l","e","c","o","i","n","-","p","i","n"," ","c","o","m","m","a","n","d"," ","t","i","m","e","d"," ","o","u","t"," ","a","f","t","e","r"," ","5"," ","m","i","n","u","t","e","s">>
StorageErrorPrefix == <<"S","t","o","r","a","g","e"," ","e","r","r","o","r",":"," ">>
HttpsScheme == <<"h","t","t","p","s",":","/","/">>
DwebLinkHost == <<".","i","p","f","s",".","d","w","e","b",".","l","i","n","k","/">>

(***************************************************************************)
(* The str methods the source uses.                                        *)
(***************************************************************************)
Whitespace == {" ", "\t", "\n", "\r"}
LineBreaks == {"\n", "\r"}

\* s[i:] and s[i:j] (1-based, inclusive)
Slice(s, i, j) == [k \in 1..(j - i + 1) |-> s[i + k - 1]]
Tail0(s, i) == Slice(s, i, Len(s))

\* whether p occurs in s at index i
MatchAt(s, p, i) ==
    /\ i >= 1
    /\ i + Len(p) - 1 <= Len(s)
    /\ \A k \in 1..Len(p) : s[i + k - 1] = p[k]

\* str.find from index i: the least index >= i where p occurs, 0 when none
Find(s, p, i) ==
    LET hits == {k \in i..(Len(s) - Len(p) + 1) : MatchAt(s, p, k)}
    IN IF hits = {} THEN 0 ELSE CHOOSE k \in hits : \A h \in hits : k <= h

\* p in s
Contains(s, p) == Find(s, p, 1) # 0

\* s.startswith(p)
StartsWith(s, p) == MatchAt(s, p, 1)

\* s.split(sep): the parts between the non-overlapping occurrences of sep,
\* scanned left to right
RECURSIVE SplitOn(_, _)
SplitOn(s, sep) ==
    LET at == Find(s, sep, 1)
    IN IF at = 0 THEN <<s>>
       ELSE <<Slice(s, 1, at - 1)>> \o SplitOn(Tail0(s, at + Len(sep)), sep)

\* s.strip()
RECURSIVE LStrip(_)
LStrip(s) == IF s # <<>> /\ Head(s) \in Whitespace THEN LStrip(Tail(s)) ELSE s
RECURSIVE RStrip(_)
RStrip(s) ==
    IF s # <<>> /\ s[Len(s)] \in Whitespace THEN RStrip(Slice(s, 1, Len(s) - 1)) ELSE s
Strip(s) == RStrip(LStrip(s))

\* s.replace(old, new): every non-overlapping occurrence, left to right
RECURSIVE Replace(_, _, _)
Replace(s, old, new) ==
    LET at == Find(s, old, 1)
    IN IF at = 0 THEN s
       ELSE Slice(s, 1, at - 1) \o new \o Replace(Tail0(s, at + Len(old)), old, new)

\* s.splitlines(): "\n", "\r" and "\r\n" end a line; no empty last line
RECURSIVE SplitLines(_)
SplitLines(s) ==
    IF s = <<>> THEN <<>>
    ELSE LET ends == {k \in 1..Len(s) : s[k] \in LineBreaks}
         IN IF ends = {} THEN <<s>>
            ELSE LET e == CHOOSE k \in ends : \A h \in ends : k <= h
                     skip == IF s[e] = "\r" /\ e < Len(s) /\ s[e + 1] = "\n" THEN 2 ELSE 1
                 IN <<Slice(s, 1, e - 1)>> \o SplitLines(Tail0(s, e + skip))

\* re.search(r"IPFS content loaded \(([^)]+)\)", line): group 1 of the leftmost
\* match, None when there is none
RECURSIVE SearchLoaded(_)
SearchLoaded(line) ==
    LET at == Find(line, IpfsLoadedLabel, 1)
    IN IF at = 0 THEN None
       ELSE LET rest == Tail0(line, at + Len(IpfsLoadedLabel))
                close == Find(rest, <<")">>, 1)
            IN IF close > 1 THEN Some(Slice(rest, 1, close - 1))
               ELSE SearchLoaded(Tail0(line, at + 1))

(***************************************************************************)
(* _filename_for_mime, _build_command, _parse_cli_output.                  *)
(***************************************************************************)
FilenameForMime(mime) ==
    IF mime = Some(JsonMime) THEN JsonFilename
    ELSE IF Truthy(mime) /\ StartsWith(The(mime), TextMimePrefix) THEN TextFilename
    ELSE BinFilename

\* the argument vector of the external process; temp_path is the pair of the
\* temporary directory and the payload filename in it
BuildCommand(cfg, temp_path) ==
    <<cfg.filecoin_pin_path, "add", temp_path>>
    \o (IF cfg.auto_fund THEN <<"--auto-fund">> ELSE <<>>)
    \o (IF cfg.bare THEN <<"--bare">> ELSE <<>>)
    \o (IF cfg.verbose THEN <<"--verbose">> ELSE <<>>)
    \o (IF Truthy(cfg.private_key) THEN <<"--private-key", The(cfg.private_key)>> ELSE <<>>)

NoFields ==
    [root_cid |-> None, piece_cid |-> None, data_set_id |-> None,
     transaction_hash |-> None, file_size_display |-> None]

\* mutant: the value is not stripped
AfterLabelNoStrip(line, label) == SplitOn(line, label)[2]

\* line.split(label)[1].strip()
AfterLabel(line, label) == Strip(SplitOn(line, label)[2])

\* the body of the loop over the lines of the output
ParseLine(acc, line) ==
    IF Contains(line, RootCidLabel)
      THEN [acc EXCEPT !.root_cid = Some(AfterLabel(line, RootCidLabel))]
    ELSE IF Contains(line, PieceCidLabel)
      THEN [acc EXCEPT !.piece_cid = Some(AfterLabel(line, PieceCidLabel))]
    ELSE IF Contains(line, DataSetIdLabel)
      THEN [acc EXCEPT !.data_set_id = Some(AfterLabel(line, DataSetIdLabel))]
    ELSE IF StartsWith(Strip(line), HashLinePrefix)
      THEN [acc EXCEPT !.transaction_hash = Some(AfterLabel(line, HashLabel))]
    ELSE IF Contains(line, IpfsLoadedLabel)
      THEN (IF SearchLoaded(line) # None
              THEN [acc EXCEPT !.file_size_display = SearchLoaded(line)]
              ELSE acc)
    ELSE acc

RECURSIVE ParseLines(_, _)
ParseLines(acc, lines) ==
    IF lines = <<>> THEN acc ELSE ParseLines(ParseLine(acc, Head(lines)), Tail(lines))

ParseCliOutput(output) == ParseLines(NoFields, SplitLines(output))

(***************************************************************************)
(* StorageResult and the results put builds.                               *)
(***************************************************************************)
\* StorageResult(success=..., provider="filecoin-pin", error=...) with the
\* dataclass defaults for the other fields
FailureResult(error) ==
    [success |-> FALSE, uri |-> <<>>, hash |-> <<>>, provider |-> ProviderName,
     cid |-> <<>>, view_url |-> <<>>, size |-> 0, metadata |-> EmptyDict,
     error |-> error]

DwebUrl(root_cid, payload_filename) ==
    HttpsScheme \o root_cid \o DwebLinkHost \o payload_filename

IpfsUri(root_cid) == IpfsPrefix \o root_cid

SuccessResult(root_cid, metadata, blob, mime, tags, payload_filename) ==
    [success |-> TRUE,
     uri |-> IpfsUri(root_cid),
     hash |-> root_cid,
     provider |-> ProviderName,
     cid |-> root_cid,
     view_url |-> DwebUrl(root_cid, payload_filename),
     size |-> Len(blob),
     metadata |->
        [piece_cid |-> metadata.piece_cid,
         data_set_id |-> metadata.data_set_id,
         transaction_hash |-> metadata.transaction_hash,
         file_size_display |-> metadata.file_size_display,
         mime_type |-> mime,
         tags |-> IF tags = None \/ The(tags) = EmptyDict THEN EmptyDict ELSE The(tags),
         filecoin_pin |-> TRUE,
         payload_filename |-> payload_filename,
         dweb_gateway_url |-> DwebUrl(root_cid, payload_filename)],
     error |-> <<>>]

\* mutant: no fallback for an empty standard error
StderrErrorNoFallback(stderr) == Strip(stderr)

\* result.stderr.strip() or "filecoin-pin command failed"
StderrError(stderr) ==
    IF Strip(stderr) # <<>> THEN Strip(stderr) ELSE CommandFailedError

\* mutant: the branch on a zero exit code without the check of root_cid
ZeroExitResultNoCheck(stdout, blob, mime, tags, payload_filename) ==
    LET metadata == ParseCliOutput(stdout)
        root_cid == IF metadata.root_cid = None THEN <<"N","o","n","e">>
                    ELSE The(metadata.root_cid)
    IN SuccessResult(root_cid, metadata, blob, mime, tags, payload_filename)

\* the branch of put on a zero exit code
ZeroExitResult(stdout, blob, mime, tags, payload_filename) ==
    LET metadata == ParseCliOutput(stdout)
        root_cid == metadata.root_cid
    IN IF ~Truthy(root_cid)
         THEN FailureResult(NoRootCidError)
         ELSE SuccessResult(The(root_cid), metadata, blob, mime, tags, payload_filename)

\* what put does with the CompletedProcess of subprocess.run
CompletedResult(cp, blob, mime, tags, payload_filename) ==
    IF cp.returncode = 0
      THEN ZeroExitResult(cp.stdout, blob, mime, tags, payload_filename)
      ELSE FailureResult(StderrError(cp.stderr))

\* an exception is its class and its text; the classes below derive from
\* Exception
ExceptionClasses ==
    {"OSError", "FileNotFoundError", "PermissionError", "UnicodeDecodeError",
     "TimeoutExpired"}
Exc(type, text) == [type |-> type, text |-> text]

\* how a call ends: a returned value or a raised exception
Returned(value) == [value |-> Some(value), raised |-> None]
Raised(exc) == [value |-> None, raised |-> Some(exc)]

\* mutant: only the except clause for TimeoutExpired
PutExceptTimeoutOnly(exc) ==
    IF exc.type = "TimeoutExpired" THEN Returned(FailureResult(TimeoutError))
    ELSE Raised(exc)

\* mutant: only the except clause for Exception
PutExceptNoTimeoutClause(exc) ==
    IF exc.type \in ExceptionClasses
      THEN Returned(FailureResult(StorageErrorPrefix \o exc.text))
    ELSE Raised(exc)

\* the except clauses of put
PutExcept(exc) ==
    IF exc.type = "TimeoutExpired" THEN Returned(FailureResult(TimeoutError))
    ELSE IF exc.type \in ExceptionClasses
      THEN Returned(FailureResult(StorageErrorPrefix \o exc.text))
    ELSE Raised(exc)

\* shutil.rmtree(temp_dir, ignore_errors=True) on the directories fs
RmTree(fs, d) == [n \in (DOMAIN fs) \ {d} |-> fs[n]]

\* mutant: only the first occurrence is removed (str.replace with count 1)
StripSchemeOnce(s) ==
    LET at == Find(s, IpfsPrefix, 1)
    IN IF at = 0 THEN s ELSE Slice(s, 1, at - 1) \o Tail0(s, at + Len(IpfsPrefix))

\* verify(uri, expected_hash)
StripScheme(s) == Replace(s, IpfsPrefix, <<>>)
Verify(uri, expected_hash) == StripScheme(uri) = StripScheme(expected_hash)

(***************************************************************************)
(* Inputs and environment.                                                 *)
(***************************************************************************)
\* the threads that call the adapter
Callers == {"t1", "t2"}
\* the caller of the sequential specifications
MainCaller == "t1"

Blobs == {<<>>, <<"x">>}
Mimes == {None, Some(JsonMime), Some(TextPlainMime)}
TagSets == {None, Some([test |-> "true"])}

\* the configurations an adapter is constructed with (__init__): the
\* defaults, and the one test_storage_provider.py constructs (with a key in
\* the environment)
DefaultConfig ==
    [filecoin_pin_path |-> "filecoin-pin", auto_fund |-> TRUE, bare |-> FALSE,
     verbose |-> FALSE, private_key |-> None]
TestConfig ==
    [filecoin_pin_path |-> "filecoin-pin", auto_fund |-> TRUE, bare |-> FALSE,
     verbose |-> TRUE, private_key |-> Some(<<"k">>)]
Configs == {DefaultConfig, TestConfig}

\* the names tempfile.mkdtemp can give a new directory
TempDirNames == {"chaoschain_filecoin_pin_1", "chaoschain_filecoin_pin_2"}
\* with one call at a time one name is enough: the choice among the free
\* names makes no difference to a single call
OneTempDirName == {"chaoschain_filecoin_pin_1"}

\* every concatenation of at most n of the pieces
RECURSIVE Concats(_, _)
Concats(pieces, n) ==
    IF n = 0 THEN {<<>>}
    ELSE LET shorter == Concats(pieces, n - 1)
         IN shorter \cup {p \o t : p \in pieces, t \in shorter}

\* what the external tool prints on standard output
OutputPieces ==
    {RootCidLabel, PieceCidLabel, <<" ">>, <<"\n">>, <<"b">>, IpfsPrefix}
Stdouts == Concats(OutputPieces, MaxOutputPieces)
\* ... and on standard error
Stderrs == {<<>>, <<" ", "\n">>, <<" ", "e", "\n">>}
ExitCodes == {0, 1}

\* the ways subprocess.run(command, capture_output=True, text=True,
\* timeout=300) ends: the process cannot be started, it outlives the timeout,
\* its output cannot be decoded, or it exits
RunFailures ==
    {[started |-> FALSE, exc |-> Exc("FileNotFoundError", <<"E">>)],
     [started |-> TRUE, exc |-> Exc("TimeoutExpired", <<"T">>)],
     [started |-> TRUE, exc |-> Exc("UnicodeDecodeError", <<>>)]}
Completed(returncode, stdout, stderr) ==
    [returncode |-> returncode, stdout |-> stdout, stderr |-> stderr]

(***************************************************************************)
(* State.                                                                  *)
(***************************************************************************)
VARIABLES
    config,     \* the adapter's configuration, set by __init__
    dirs,       \* the temporary directories that exist: name -> owner, files
    pc,         \* per caller: where its put call stands
    args,       \* per caller: the arguments of its put call
    tempDir,    \* per caller: temp_dir of its put call, None before mkdtemp
    spawned,    \* per caller: the commands its put call has started
    proc,       \* per caller: how subprocess.run ended in its put call
    exit,       \* per caller: how its put call ended
    verified    \* per caller: verify(result.uri, result.cid), once computed

putVars == <<config, dirs, pc, args, tempDir, spawned, proc, exit, verified>>

NoArgs == [blob |-> <<>>, mime |-> None, tags |-> None, payload_filename |-> <<>>]
NoExit == [value |-> None, raised |-> None]

InitPutWith(configs) ==
    /\ config \in configs
    /\ dirs = [n \in {} |-> <<>>]
    /\ pc = [c \in Callers |-> "idle"]
    /\ args = [c \in Callers |-> NoArgs]
    /\ tempDir = [c \in Callers |-> None]
    /\ spawned = [c \in Callers |-> <<>>]
    /\ proc = [c \in Callers |-> None]
    /\ exit = [c \in Callers |-> NoExit]
    /\ verified = [c \in Callers |-> None]

(***************************************************************************)
(* __init__ and _verify_filecoin_pin (lines 42-85).                        *)
(***************************************************************************)
NotFoundErrorPrefix == <<"f","i","l","e","c","o","i","n","-","p","i","n"," ","n","o","t"," ","f","o","u","n","d"," ","a","t"," ","p","a","t","h",":"," ">>
NonZeroErrorPrefix == <<"f","i","l","e","c","o","i","n","-","p","i","n"," ","C","L","I"," ","r","e","t","u","r","n","e","d"," ","n","o","n","-","z","e","r","o"," ","e","x","i","t"," ","c","o","d","e",":"," ">>
VersionTimeoutError == <<"f","i","l","e","c","o","i","n","-","p","i","n"," ","v","e","r","s","i","o","n"," ","c","o","m","m","a","n","d"," ","t","i","m","e","d"," ","o","u","t">>

VARIABLES
    instance,     \* "none": no adapter yet; "ready": __init__ returned an
                  \* adapter; "failed": __init__ raised, there is no adapter
    versionRuns,  \* the "--version" commands run, with how each ended
    ctorExit      \* how __init__ ended

ctorVars == <<instance, versionRuns, ctorExit>>

\* the ways subprocess.run([path, "--version"], capture_output=True,
\* text=True, timeout=10) ends: no such executable, a file that is not
\* executable, no answer within the timeout, or an exit
VersionOutcomes ==
    {[exc |-> Some(Exc(t, <<"E">>)), completed |-> None]
       : t \in {"FileNotFoundError", "PermissionError", "TimeoutExpired"}}
    \cup {[exc |-> None, completed |-> Some(Completed(rc, out, err))]
            : rc \in ExitCodes, out \in {<<>>, <<"0", ".", "1", "\n">>}, err \in Stderrs}

\* mutant: the exit code of the version command is not looked at
VerifyFilecoinPinAnyExit(path, outcome) ==
    IF outcome.exc = None THEN Returned(None)
    ELSE IF The(outcome.exc).type = "FileNotFoundError"
      THEN Raised(Exc("RuntimeError", NotFoundErrorPrefix \o <<path>>))
    ELSE IF The(outcome.exc).type = "TimeoutExpired"
      THEN Raised(Exc("RuntimeError", VersionTimeoutError))
    ELSE Raised(The(outcome.exc))

\* _verify_filecoin_pin, given how the version command ended: it returns
\* None or raises
VerifyFilecoinPin(path, outcome) ==
    IF outcome.exc = None
      THEN IF The(outcome.completed).returncode # 0
             THEN Raised(Exc("RuntimeError",
                             NonZeroErrorPrefix \o Strip(The(outcome.completed).stderr)))
             ELSE Returned(None)
    ELSE IF The(outcome.exc).type = "FileNotFoundError"
      THEN Raised(Exc("RuntimeError", NotFoundErrorPrefix \o <<path>>))
    ELSE IF The(outcome.exc).type = "TimeoutExpired"
      THEN Raised(Exc("RuntimeError", VersionTimeoutError))
    ELSE Raised(The(outcome.exc))

VersionCommand(path) == <<path, "--version">>

\* the state after a construction that succeeded
InitConstructed ==
    /\ instance = "ready"
    /\ versionRuns = <<[command |-> VersionCommand(config.filecoin_pin_path),
                        outcome |-> [exc |-> None,
                                     completed |-> Some(Completed(0, <<>>, <<>>))]]>>
    /\ ctorExit = Returned(None)

\* the state before any construction
InitUnconstructed ==
    /\ instance = "none"
    /\ versionRuns = <<>>
    /\ ctorExit = NoExit

\* FilecoinPinStorageProvider(...): the fields are set, then the version
\* check runs; the caller gets the adapter only when __init__ returns
Construct ==
    /\ instance = "none"
    /\ \E cfg \in Configs, outcome \in VersionOutcomes :
         LET how == VerifyFilecoinPin(cfg.filecoin_pin_path, outcome)
         IN /\ config' = cfg
            /\ versionRuns' = Append(versionRuns,
                                     [command |-> VersionCommand(cfg.filecoin_pin_path),
                                      outcome |-> outcome])
            /\ ctorExit' = how
            /\ instance' = IF how.raised = None THEN "ready" ELSE "failed"
    /\ UNCHANGED <<dirs, pc, args, tempDir, spawned, proc, exit, verified>>

\* the call ends: by a return or a raise
EndPut(c, how) ==
    /\ exit' = [exit EXCEPT ![c] = how]
    /\ pc' = [pc EXCEPT ![c] = IF how.raised = None THEN "returned" ELSE "raised"]

(***************************************************************************)
(* put (lines 145-241), one action per blocking step.                      *)
(***************************************************************************)
\* put is called on the adapter: payload_filename =
\* self._filename_for_mime(mime)
PutCallWith(c, blobs, mimes, tagSets) ==
    /\ instance = "ready"
    /\ pc[c] = "idle"
    /\ \E blob \in blobs, mime \in mimes, tags \in tagSets :
         args' = [args EXCEPT ![c] =
                    [blob |-> blob, mime |-> mime, tags |-> tags,
                     payload_filename |-> FilenameForMime(mime)]]
    /\ pc' = [pc EXCEPT ![c] = "mkdtemp"]
    /\ UNCHANGED <<config, dirs, tempDir, spawned, proc, exit, verified>>

\* mutant: the directory is taken under a name that may be in use
PutMkdtempShared(c, names) ==
    /\ pc[c] = "mkdtemp"
    /\ \/ \E d \in names :
            /\ dirs' = [n \in (DOMAIN dirs) \cup {d} |->
                          IF n = d THEN [owner |-> c, files |-> {}] ELSE dirs[n]]
            /\ tempDir' = [tempDir EXCEPT ![c] = Some(d)]
            /\ pc' = [pc EXCEPT ![c] = "write"]
            /\ UNCHANGED exit
       \/ /\ EndPut(c, PutExcept(Exc("OSError", <<"E">>)))
          /\ UNCHANGED <<dirs, tempDir>>
    /\ UNCHANGED <<config, args, spawned, proc, verified>>

\* temp_dir = Path(tempfile.mkdtemp(...)): a new directory under a name not
\* in use, or an OSError
PutMkdtempWith(c, names) ==
    /\ pc[c] = "mkdtemp"
    /\ \/ \E d \in names \ DOMAIN dirs :
            /\ dirs' = [n \in (DOMAIN dirs) \cup {d} |->
                          IF n = d THEN [owner |-> c, files |-> {}] ELSE dirs[n]]
            /\ tempDir' = [tempDir EXCEPT ![c] = Some(d)]
            /\ pc' = [pc EXCEPT ![c] = "write"]
            /\ UNCHANGED exit
       \/ /\ EndPut(c, PutExcept(Exc("OSError", <<"E">>)))
          /\ UNCHANGED <<dirs, tempDir>>
    /\ UNCHANGED <<config, args, spawned, proc, verified>>

\* temp_path.write_bytes(blob), outside the inner try: the payload file is
\* written, or an OSError leaves it missing or empty
PutWrite(c) ==
    /\ pc[c] = "write"
    /\ LET d == The(tempDir[c])
           file(content) == [name |-> args[c].payload_filename, content |-> content]
       IN \/ /\ dirs' = [dirs EXCEPT ![d].files = {file(args[c].blob)}]
             /\ pc' = [pc EXCEPT ![c] = "run"]
             /\ UNCHANGED exit
          \/ /\ \E left \in {{}, {file(<<>>)}} :
                  dirs' = [dirs EXCEPT ![d].files = left]
             /\ EndPut(c, PutExcept(Exc("OSError", <<"E">>)))
    /\ UNCHANGED <<config, args, tempDir, spawned, proc, verified>>

\* the inner try: the command is built and run once; its result is turned
\* into a StorageResult; the finally clause removes temp_dir; the except
\* clauses turn an exception into a StorageResult
PutRunWith(c, stdouts) ==
    /\ pc[c] = "run"
    /\ LET d == The(tempDir[c])
           a == args[c]
           command == BuildCommand(config, <<d, a.payload_filename>>)
       IN /\ dirs' = RmTree(dirs, d)
          /\ \/ \E f \in RunFailures :
                  /\ spawned' = [spawned EXCEPT ![c] =
                                   IF f.started THEN Append(@, command) ELSE @]
                  /\ proc' = [proc EXCEPT ![c] = Some([exc |-> Some(f.exc), completed |-> None])]
                  /\ EndPut(c, PutExcept(f.exc))
             \/ \E rc \in ExitCodes, out \in stdouts, err \in Stderrs :
                  LET cp == Completed(rc, out, err)
                  IN /\ spawned' = [spawned EXCEPT ![c] = Append(@, command)]
                     /\ proc' = [proc EXCEPT ![c] = Some([exc |-> None, completed |-> Some(cp)])]
                     /\ EndPut(c, Returned(CompletedResult(cp, a.blob, a.mime, a.tags,
                                                           a.payload_filename)))
    /\ UNCHANGED <<config, args, tempDir, verified>>

PutCall(c) == PutCallWith(c, Blobs, Mimes, TagSets)
PutRun(c) == PutRunWith(c, Stdouts)
PutMkdtemp(c) == PutMkdtempWith(c, TempDirNames)

\* the caller checks a stored result: verify(result.uri, result.cid)
\* (test_storage_provider.py, line 58)
VerifyPutResult(c) ==
    /\ pc[c] = "returned"
    /\ The(exit[c].value).success
    /\ verified[c] = None
    /\ verified' = [verified EXCEPT ![c] =
                      Some(Verify(The(exit[c].value).uri, The(exit[c].value).cid))]
    /\ UNCHANGED <<config, dirs, pc, args, tempDir, spawned, proc, exit>>

(***************************************************************************)
(* get (lines 243-288).                                                    *)
(***************************************************************************)
IpfsIoBase == <<"h","t","t","p","s",":","/","/","i","p","f","s",".","i","o","/","i","p","f","s","/">>
PinataBase == <<"h","t","t","p","s",":","/","/","g","a","t","e","w","a","y",".","p","i","n","a","t","a",".","c","l","o","u","d","/","i","p","f","s","/">>
CloudflareBase == <<"h","t","t","p","s",":","/","/","c","l","o","u","d","f","l","a","r","e","-","i","p","f","s",".","c","o","m","/","i","p","f","s","/">>
DwebBase == <<"h","t","t","p","s",":","/","/","d","w","e","b",".","l","i","n","k","/","i","p","f","s","/">>
AggregateError == <<"F","a","i","l","e","d"," ","t","o"," ","r","e","t","r","i","e","v","e"," ","f","r","o","m"," ","a","n","y"," ","I","P","F","S"," ","g","a","t","e","w","a","y">>
RetrieveErrorPrefix == <<"E","r","r","o","r"," ","r","e","t","r","i","e","v","i","n","g"," ","f","r","o","m"," ","I","P","F","S",":"," ">>

\* the list gateways of get, for a CID
Gateways(cid) ==
    <<IpfsIoBase \o cid, PinataBase \o cid, CloudflareBase \o cid, DwebBase \o cid>>

\* the uris get is called with
GetUris == {<<"b">>, IpfsPrefix \o <<"b">>, <<"b">> \o IpfsPrefix}

\* what requests.get(gateway_url, timeout=30) gives: a response, or an
\* exception (connection refused, timeout, ...)
Bodies == {<<>>, <<"x">>}
StatusCodes == {200, 404, 500}
Responses ==
    {[exc |-> None, status_code |-> st, content |-> b, content_type |-> ct]
       : st \in StatusCodes, b \in Bodies, ct \in {None, Some(JsonMime)}}
    \cup {[exc |-> Some(Exc(t, <<"E">>)), status_code |-> 0, content |-> <<>>,
           content_type |-> None] : t \in {"ConnectionError", "Timeout"}}

\* mutant: any response ends get, whatever its status
GetTurnAnyStatus(gateway_url, resp) ==
    IF resp.exc = None
      THEN Some(<<resp.content,
                  [content_type |-> resp.content_type,
                   content_length |-> Some(Len(resp.content)),
                   gateway |-> gateway_url]>>)
      ELSE None

\* one turn of the loop over the gateways: the response to the request to
\* gateway_url either ends get with a value or leaves it to the next gateway
GetTurn(gateway_url, resp) ==
    IF resp.exc = None /\ resp.status_code = 200
      THEN Some(<<resp.content,
                  [content_type |-> resp.content_type,
                   content_length |-> Some(Len(resp.content)),
                   gateway |-> gateway_url]>>)
      ELSE None

\* after the loop: the exception raised inside the outer try and raised
\* again by its except clause
GetExhaustedExc ==
    Exc("Exception", RetrieveErrorPrefix \o AggregateError)

\* mutant: the loop leaves out the last gateway
GetLoopStopsEarly(i, n) == i < n

\* whether the loop goes on to gateway number i of n
GetLoopHasNext(i, n) == i <= n

VARIABLES
    gpc,        \* where the get call stands
    guri,       \* the uri get was called with
    gnext,      \* the index in gateways of the next gateway to request
    requests,   \* the requests sent so far in this call, with their responses
    gexit       \* how the get call ended

getVars == <<gpc, guri, gnext, requests, gexit>>

InitGet ==
    /\ gpc = "idle"
    /\ guri = <<>>
    /\ gnext = 0
    /\ requests = <<>>
    /\ gexit = NoExit

\* get is called: cid = uri.replace("ipfs://", "")
GetCall ==
    /\ gpc = "idle"
    /\ guri' \in GetUris
    /\ gnext' = 1
    /\ gpc' = "loop"
    /\ UNCHANGED <<requests, gexit>>

\* the body of the loop for the next gateway
GetRequestWith(responses) ==
    /\ gpc = "loop"
    /\ GetLoopHasNext(gnext, Len(Gateways(StripScheme(guri))))
    /\ \E resp \in responses :
         LET url == Gateways(StripScheme(guri))[gnext]
             turn == GetTurn(url, resp)
         IN /\ requests' = Append(requests, [url |-> url, resp |-> resp])
            /\ IF turn # None
                 THEN /\ gpc' = "returned"
                      /\ gexit' = Returned(The(turn))
                      /\ UNCHANGED gnext
                 ELSE /\ gnext' = gnext + 1
                      /\ UNCHANGED <<gpc, gexit>>
    /\ UNCHANGED guri

GetRequest == GetRequestWith(Responses)

\* the loop is over without a return
GetExhausted ==
    /\ gpc = "loop"
    /\ ~GetLoopHasNext(gnext, Len(Gateways(StripScheme(guri))))
    /\ gpc' = "raised"
    /\ gexit' = Raised(GetExhaustedExc)
    /\ UNCHANGED <<guri, gnext, requests>>

(***************************************************************************)
(* verify (lines 290-305) on arbitrary strings.                            *)
(***************************************************************************)
UriPieces == {IpfsPrefix, <<"i","p","f","s",":","/">>, <<"/">>, <<"b">>}
VerifyInputs == Concats(UriPieces, MaxUriPieces)

VARIABLES
    vpc,        \* whether verify has been called
    vuri,       \* its argument uri
    vexpected,  \* its argument expected_hash
    vresult     \* what it returned

verifyVars == <<vpc, vuri, vexpected, vresult>>

InitVerify ==
    /\ vpc = "idle"
    /\ vuri = <<>>
    /\ vexpected = <<>>
    /\ vresult = FALSE

VerifyCall ==
    /\ vpc = "idle"
    /\ \E u \in VerifyInputs, e \in VerifyInputs :
         /\ vuri' = u
         /\ vexpected' = e
         /\ vresult' = Verify(u, e)
    /\ vpc' = "returned"

(***************************************************************************)
(* upload_json (lines 323-350).                                            *)
(***************************************************************************)
DefaultJsonFilename == <<"d","a","t","a",".","j","s","o","n">>

\* the dicts upload_json is called with, as the sequence of their items in
\* insertion order; a value is an int or an object json cannot serialize (a
\* set, bytes)
IntValue(n) == [kind |-> "int", n |-> n]
SetValue == [kind |-> "set", n |-> 0]
Item(key, value) == [key |-> key, value |-> value]
JsonDatas ==
    {<<>>,
     <<Item(<<"a">>, IntValue(1))>>,
     <<Item(<<"b">>, IntValue(2)), Item(<<"a">>, IntValue(1))>>,
     <<Item(<<"a">>, SetValue)>>,
     <<Item(<<"a">>, IntValue(1)), Item(<<"b">>, SetValue)>>}
JsonFilenames == {None, Some(<<>>), Some(<<"f">>)}

Digits == <<"0", "1", "2", "3", "4", "5", "6", "7", "8", "9">>
\* the items of a dict, each on its line with an indent of two spaces,
\* separated by ",\n"
RECURSIVE JsonItems(_)
JsonItems(items) ==
    LET it == Head(items)
        line == <<" ", " ", "\"">> \o it.key \o <<"\"", ":", " ">>
                  \o <<Digits[it.value.n + 1]>>
    IN IF Len(items) = 1 THEN line ELSE line \o <<",", "\n">> \o JsonItems(Tail(items))

\* json.dumps(data, indent=2): the text, or None for the TypeError json
\* raises on a value it cannot serialize
JsonDumps(data) ==
    IF \E i \in 1..Len(data) : data[i].value.kind # "int" THEN None
    ELSE IF data = <<>> THEN Some(<<"{", "}">>)
    ELSE Some(<<"{", "\n">> \o JsonItems(data) \o <<"\n", "}">>)

\* text.encode("utf-8"): the text is ASCII, each character is one byte
Utf8Encode(text) == text

\* tags={"filename": filename or "data.json"}
UploadTags(filename) ==
    [filename |-> IF Truthy(filename) THEN The(filename) ELSE DefaultJsonFilename]

\* mutant: the cid of the result is returned whether or not it is a success
UploadJsonResultNoCheck(how) ==
    IF how.raised # None THEN Returned(None)
    ELSE Returned(Some(The(how.value).cid))

\* what upload_json returns, given how its put call ended: the cid of a
\* success, None for a failure and (except Exception) for a raise
UploadJsonResult(how) ==
    IF how.raised # None THEN Returned(None)
    ELSE IF The(how.value).success THEN Returned(Some(The(how.value).cid))
    ELSE Returned(None)

VARIABLES
    ujpc,       \* per caller: where its upload_json call stands
    ujargs,     \* per caller: the arguments of its upload_json call
    putCalls,   \* per caller: the put calls its upload_json call has made
    ujexit      \* per caller: how its upload_json call ended

uploadVars == <<ujpc, ujargs, putCalls, ujexit>>

NoUploadArgs == [data |-> <<>>, filename |-> None]

InitUpload ==
    /\ ujpc = [c \in Callers |-> "idle"]
    /\ ujargs = [c \in Callers |-> NoUploadArgs]
    /\ putCalls = [c \in Callers |-> <<>>]
    /\ ujexit = [c \in Callers |-> NoExit]

\* upload_json is called: json.dumps raises and the except clause returns
\* None, or put is called with the encoded text
UploadJsonCall(c) ==
    /\ instance = "ready"
    /\ ujpc[c] = "idle"
    /\ pc[c] = "idle"
    /\ \E data \in JsonDatas, filename \in JsonFilenames :
         /\ ujargs' = [ujargs EXCEPT ![c] = [data |-> data, filename |-> filename]]
         /\ IF JsonDumps(data) = None
              THEN /\ ujpc' = [ujpc EXCEPT ![c] = "returned"]
                   /\ ujexit' = [ujexit EXCEPT ![c] = Returned(None)]
                   /\ UNCHANGED <<putCalls, putVars>>
              ELSE LET blob == Utf8Encode(The(JsonDumps(data)))
                       tags == Some(UploadTags(filename))
                   IN /\ PutCallWith(c, {blob}, {Some(JsonMime)}, {tags})
                      /\ putCalls' = [putCalls EXCEPT ![c] =
                                        Append(@, [blob |-> blob, mime |-> Some(JsonMime),
                                                   tags |-> tags])]
                      /\ ujpc' = [ujpc EXCEPT ![c] = "put"]
                      /\ UNCHANGED ujexit

\* the put call has ended: upload_json returns
UploadJsonReturn(c) ==
    /\ ujpc[c] = "put"
    /\ pc[c] \in {"returned", "raised"}
    /\ ujexit' = [ujexit EXCEPT ![c] = UploadJsonResult(exit[c])]
    /\ ujpc' = [ujpc EXCEPT ![c] = "returned"]
    /\ UNCHANGED <<ujargs, putCalls, putVars>>

(***************************************************************************)
(* delete (lines 307-321).                                                 *)
(***************************************************************************)
\* mutant: delete reports that the content was removed
DeleteUnpinned(uri) == TRUE

\* delete(uri)
Delete(uri) == FALSE

\* the uris delete is called with
DeleteUris == {<<>>, <<"b">>, IpfsPrefix \o <<"b">>}

VARIABLES
    dcalls,     \* the number of delete calls made
    duri,       \* the uri of the last delete call
    dresult     \* what the last delete call returned, None before any

deleteVars == <<dcalls, duri, dresult>>

InitDelete ==
    /\ dcalls = 0
    /\ duri = <<>>
    /\ dresult = None

\* delete is called and returns: it prints a line and returns False; it
\* reads and writes nothing else
DeleteCall ==
    /\ instance = "ready"
    /\ dcalls < MaxDeleteCalls
    /\ \E uri \in DeleteUris :
         /\ duri' = uri
         /\ dresult' = Some(Delete(uri))
    /\ dcalls' = dcalls + 1
    /\ UNCHANGED <<putVars, ctorVars, uploadVars, getVars, verifyVars>>

(***************************************************************************)
(* Specifications.                                                         *)
(***************************************************************************)
vars == <<putVars, ctorVars, uploadVars, deleteVars, getVars, verifyVars>>

\* one caller stores a payload with put and verifies the result
InitRest == InitUpload /\ InitDelete /\ InitGet /\ InitVerify

Init == InitPutWith({TestConfig}) /\ InitConstructed /\ InitRest

Next ==
    \/ PutCall(MainCaller) /\ UNCHANGED <<ctorVars, uploadVars, deleteVars, getVars, verifyVars>>
    \/ PutMkdtempWith(MainCaller, OneTempDirName) /\ UNCHANGED <<ctorVars, uploadVars, deleteVars, getVars, verifyVars>>
    \/ PutWrite(MainCaller) /\ UNCHANGED <<ctorVars, uploadVars, deleteVars, getVars, verifyVars>>
    \/ PutRun(MainCaller) /\ UNCHANGED <<ctorVars, uploadVars, deleteVars, getVars, verifyVars>>
    \/ VerifyPutResult(MainCaller) /\ UNCHANGED <<ctorVars, uploadVars, deleteVars, getVars, verifyVars>>

Spec == Init /\ [][Next]_vars

\* one caller retrieves content with get
NextGet ==
    \/ GetCall /\ UNCHANGED <<putVars, ctorVars, uploadVars, deleteVars, verifyVars>>
    \/ GetRequest /\ UNCHANGED <<putVars, ctorVars, uploadVars, deleteVars, verifyVars>>
    \/ GetExhausted /\ UNCHANGED <<putVars, ctorVars, uploadVars, deleteVars, verifyVars>>

SpecGet == Init /\ [][NextGet]_vars

\* verify on arbitrary strings
NextVerify == VerifyCall /\ UNCHANGED <<putVars, ctorVars, uploadVars, deleteVars, getVars>>

SpecVerify == Init /\ [][NextVerify]_vars

\* small sets of what the tool prints, for the specifications below
FewStdouts ==
    {<<>>, RootCidLabel, RootCidLabel \o <<" ", "b", "\n">>, PieceCidLabel \o <<"b">>}

\* one caller uploads a dict with upload_json
NextUpload ==
    \/ UploadJsonCall(MainCaller) /\ UNCHANGED <<ctorVars, deleteVars, getVars, verifyVars>>
    \/ PutMkdtempWith(MainCaller, OneTempDirName)
         /\ UNCHANGED <<ctorVars, uploadVars, deleteVars, getVars, verifyVars>>
    \/ PutWrite(MainCaller)
         /\ UNCHANGED <<ctorVars, uploadVars, deleteVars, getVars, verifyVars>>
    \/ PutRunWith(MainCaller, FewStdouts)
         /\ UNCHANGED <<ctorVars, uploadVars, deleteVars, getVars, verifyVars>>
    \/ UploadJsonReturn(MainCaller) /\ UNCHANGED <<ctorVars, deleteVars, getVars, verifyVars>>

SpecUpload == Init /\ [][NextUpload]_vars

\* the adapter is constructed, then one caller stores payloads with put
InitCtor == InitPutWith({DefaultConfig}) /\ InitUnconstructed /\ InitRest

NextCtor ==
    \/ Construct /\ UNCHANGED <<uploadVars, deleteVars, getVars, verifyVars>>
    \/ PutCallWith(MainCaller, Blobs, {None}, {None})
         /\ UNCHANGED <<ctorVars, uploadVars, deleteVars, getVars, verifyVars>>
    \/ PutMkdtempWith(MainCaller, OneTempDirName)
         /\ UNCHANGED <<ctorVars, uploadVars, deleteVars, getVars, verifyVars>>
    \/ PutWrite(MainCaller)
         /\ UNCHANGED <<ctorVars, uploadVars, deleteVars, getVars, verifyVars>>
    \/ PutRunWith(MainCaller, FewStdouts)
         /\ UNCHANGED <<ctorVars, uploadVars, deleteVars, getVars, verifyVars>>

SpecCtor == InitCtor /\ [][NextCtor]_vars

\* a few of the answers of a gateway
FewResponses ==
    {[exc |-> None, status_code |-> st, content |-> <<"x">>, content_type |-> None]
       : st \in {200, 404}}

\* put, get and delete are called on the adapter, delete at any moment
NextDelete ==
    \/ DeleteCall
    \/ PutCallWith(MainCaller, {<<"x">>}, {None}, {None})
         /\ UNCHANGED <<ctorVars, uploadVars, deleteVars, getVars, verifyVars>>
    \/ PutMkdtempWith(MainCaller, OneTempDirName)
         /\ UNCHANGED <<ctorVars, uploadVars, deleteVars, getVars, verifyVars>>
    \/ PutWrite(MainCaller)
         /\ UNCHANGED <<ctorVars, uploadVars, deleteVars, getVars, verifyVars>>
    \/ PutRunWith(MainCaller, FewStdouts)
         /\ UNCHANGED <<ctorVars, uploadVars, deleteVars, getVars, verifyVars>>
    \/ GetCall /\ UNCHANGED <<putVars, ctorVars, uploadVars, deleteVars, verifyVars>>
    \/ GetRequestWith(FewResponses)
         /\ UNCHANGED <<putVars, ctorVars, uploadVars, deleteVars, verifyVars>>
    \/ GetExhausted /\ UNCHANGED <<putVars, ctorVars, uploadVars, deleteVars, verifyVars>>

SpecDelete == Init /\ [][NextDelete]_vars

\* two callers store payloads with put on one adapter, their steps
\* interleaved in any order
NextConc ==
    \/ \E c \in Callers :
         PutCallWith(c, Blobs, {None}, {None})
           /\ UNCHANGED <<ctorVars, uploadVars, deleteVars, getVars, verifyVars>>
    \/ \E c \in Callers :
         PutMkdtemp(c) /\ UNCHANGED <<ctorVars, uploadVars, deleteVars, getVars, verifyVars>>
    \/ \E c \in Callers :
         PutWrite(c) /\ UNCHANGED <<ctorVars, uploadVars, deleteVars, getVars, verifyVars>>
    \/ \E c \in Callers :
         PutRunWith(c, FewStdouts)
           /\ UNCHANGED <<ctorVars, uploadVars, deleteVars, getVars, verifyVars>>

SpecConc == Init /\ [][NextConc]_vars

(***************************************************************************)
(* Properties of put.                                                      *)
(***************************************************************************)
\* the StorageResult a returned put call gave
ResultOf(c) == The(exit[c].value)
\* the CompletedProcess of a put call whose process exited
ExitedOf(c) == The(The(proc[c]).completed)
HasExited(c) == proc[c] # None /\ The(proc[c]).completed # None
\* the class of the exception subprocess.run raised in a put call
RunRaised(c, type) ==
    /\ proc[c] # None
    /\ The(proc[c]).exc # None
    /\ The(The(proc[c]).exc).type = type

\* C1: put never raises: a call that has begun can always go on, it never
\* ends by a raise, what it returns is a StorageResult, and that result has
\* success = FALSE unless the process exited with code 0 and a root CID was
\* parsed from its output.
PutNeverRaises ==
    \A c \in Callers :
      /\ pc[c] # "raised"
      /\ exit[c].raised = None
      /\ (c = MainCaller /\ pc[c] \in {"mkdtemp", "write", "run"} => ENABLED Next)
      /\ pc[c] = "returned" =>
           /\ exit[c].value # None
           /\ ResultOf(c).success \in BOOLEAN
           /\ ResultOf(c).provider = ProviderName
           /\ (ResultOf(c).success =>
                 /\ HasExited(c)
                 /\ ExitedOf(c).returncode = 0
                 /\ Truthy(ParseCliOutput(ExitedOf(c).stdout).root_cid))

\* a put call returned a failure after the process could not be started
PutNeverRaisesWitness ==
    /\ pc[MainCaller] = "returned"
    /\ RunRaised(MainCaller, "FileNotFoundError")
    /\ ~ResultOf(MainCaller).success
    /\ ResultOf(MainCaller).error = StorageErrorPrefix \o <<"E">>

\* C2: in every StorageResult put returns, success is true iff cid is not
\* empty iff error is empty.
ResultInvariant ==
    \A c \in Callers :
      pc[c] = "returned" =>
        /\ ResultOf(c).success <=> ResultOf(c).cid # <<>>
        /\ ResultOf(c).success <=> ResultOf(c).error = <<>>

\* a non-zero exit with only whitespace on standard error
ResultInvariantWitness ==
    /\ pc[MainCaller] = "returned"
    /\ HasExited(MainCaller)
    /\ ExitedOf(MainCaller).returncode # 0
    /\ ExitedOf(MainCaller).stderr = <<" ", "\n">>
    /\ ~ResultOf(MainCaller).success
    /\ ResultOf(MainCaller).error = CommandFailedError

\* C3: once a put call has ended, the temporary directory it created does
\* not exist.
TempDirRemoved ==
    \A c \in Callers :
      pc[c] \in {"returned", "raised"} /\ tempDir[c] # None
        => The(tempDir[c]) \notin DOMAIN dirs

\* the occurrences of the "Root CID:" label in the tool's output
RootCidLabelsIn(out) == {i \in 1..Len(out) : MatchAt(out, RootCidLabel, i)}
\* the text printed after the label at index i, to the end of its line,
\* without the surrounding whitespace
PrintedAfter(out, i) ==
    LET from == i + Len(RootCidLabel)
        breaks == {k \in from..Len(out) : out[k] \in LineBreaks}
        to == IF breaks = {} THEN Len(out)
              ELSE (CHOOSE k \in breaks : \A h \in breaks : k <= h) - 1
    IN Strip(Slice(out, from, to))
\* the output prints a Root CID: the label once, with a value after it
PrintsRootCid(out) ==
    /\ Cardinality(RootCidLabelsIn(out)) = 1
    /\ \A i \in RootCidLabelsIn(out) : PrintedAfter(out, i) # <<>>
PrintedRootCid(out) == PrintedAfter(out, CHOOSE i \in RootCidLabelsIn(out) : TRUE)

ZeroExitWithoutRootCid ==
    \A c \in Callers :
      (/\ pc[c] = "returned"
       /\ HasExited(c)
       /\ ExitedOf(c).returncode = 0
       /\ RootCidLabelsIn(ExitedOf(c).stdout) = {})
      => /\ ~ResultOf(c).success
         /\ ResultOf(c).error = NoRootCidError
         /\ ResultOf(c).cid = <<>>
         /\ ResultOf(c).uri = <<>>

\* exit code 0 and an output with a Piece CID only
ZeroExitWithoutRootCidWitness ==
    /\ pc[MainCaller] = "returned"
    /\ HasExited(MainCaller)
    /\ ExitedOf(MainCaller).returncode = 0
    /\ ExitedOf(MainCaller).stdout = PieceCidLabel \o <<" ", "b">>
    /\ ~ResultOf(MainCaller).success
    /\ ResultOf(MainCaller).error = NoRootCidError

\* C6: a put call starts the "add" process at most once, and when the
\* process outlives its timeout the call returns a failure with the fixed
\* timeout error, the process having been started once.
TimeoutNoRetry ==
    \A c \in Callers :
      /\ Len(spawned[c]) <= 1
      /\ \A i \in 1..Len(spawned[c]) : spawned[c][i][2] = "add"
      /\ (pc[c] = "returned" /\ RunRaised(c, "TimeoutExpired")) =>
           /\ ~ResultOf(c).success
           /\ ResultOf(c).error = TimeoutError
           /\ Len(spawned[c]) = 1

\* a put call returned after its process timed out
TimeoutNoRetryWitness ==
    /\ pc[MainCaller] = "returned"
    /\ RunRaised(MainCaller, "TimeoutExpired")
    /\ Len(spawned[MainCaller]) = 1
    /\ ResultOf(MainCaller).error = TimeoutError

\* C10: verify(r.uri, r.cid) is true for every successful result r of put.
StoredResultVerifies ==
    \A c \in Callers : verified[c] # None => The(verified[c]) = TRUE

\* the tool printed a root CID that itself starts with "ipfs://"
StoredResultVerifiesWitness ==
    /\ verified[MainCaller] = Some(TRUE)
    /\ ResultOf(MainCaller).cid = IpfsPrefix \o <<"b">>
    /\ ResultOf(MainCaller).uri = IpfsPrefix \o IpfsPrefix \o <<"b">>

(***************************************************************************)
(* Properties of get.                                                      *)
(***************************************************************************)
\* a gateway failed: a transport error or a status other than 200
GatewayFailed(resp) == resp.exc # None \/ resp.status_code # 200
\* the gateways in their fixed order
GatewayBases == <<IpfsIoBase, PinataBase, CloudflareBase, DwebBase>>
\* the requests of this call went to the first gateways of the list, in the
\* order of the list, one each
RequestsInOrder ==
    /\ Len(requests) <= Len(GatewayBases)
    /\ \A i \in 1..Len(requests) : StartsWith(requests[i].url, GatewayBases[i])

\* C7: the gateways are requested in list order; a response with status 200
\* is the last request of the call and get returns its body with metadata
\* naming its gateway; every request before it failed.
FirstSuccessWins ==
    /\ RequestsInOrder
    /\ \A i \in 1..Len(requests) :
         IF GatewayFailed(requests[i].resp)
           THEN i = Len(requests) => gpc # "returned"
           ELSE /\ i = Len(requests)
                /\ gpc = "returned"
                /\ gexit.raised = None
                /\ The(gexit.value)[1] = requests[i].resp.content
                /\ The(gexit.value)[2].gateway = requests[i].url
    /\ gpc = "returned" => Len(requests) >= 1

\* the first gateway failed, the second answered 200 with body "x", the
\* third and fourth were not requested
FirstSuccessWinsWitness ==
    /\ gpc = "returned"
    /\ guri = IpfsPrefix \o <<"b">>
    /\ Len(requests) = 2
    /\ requests[1].resp.status_code = 500
    /\ The(gexit.value)[1] = <<"x">>
    /\ The(gexit.value)[2].gateway = PinataBase \o <<"b">>

\* C8: get raises only after every gateway of the list was requested once,
\* in order, and failed; when all have failed get raises and returns no
\* value; while gateways remain untried after failures the call goes on.
AllFailRaises ==
    LET allFailed == \A i \in 1..Len(requests) : GatewayFailed(requests[i].resp)
    IN /\ gpc = "raised" =>
            /\ RequestsInOrder
            /\ Len(requests) = Len(GatewayBases)
            /\ allFailed
            /\ gexit.value = None
            /\ gexit.raised # None
       /\ (allFailed /\ Len(requests) = Len(GatewayBases)) =>
            /\ gpc \in {"loop", "raised"}
            /\ gpc = "loop" => ENABLED GetExhausted /\ ~ENABLED GetRequest
       /\ (allFailed /\ gpc = "loop" /\ Len(requests) < Len(GatewayBases)) =>
            ENABLED GetRequest /\ ~ENABLED GetExhausted

\* get raised after a status 404, two transport errors and a status 500
AllFailRaisesWitness ==
    /\ gpc = "raised"
    /\ Len(requests) = 4
    /\ requests[1].resp.status_code = 404
    /\ requests[2].resp.exc # None
    /\ requests[3].resp.exc # None
    /\ requests[4].resp.status_code = 500
    /\ The(gexit.raised).text = RetrieveErrorPrefix \o AggregateError

(***************************************************************************)
(* Properties of verify.                                                   *)
(***************************************************************************)
\* s without its leading "ipfs://", s itself when it has none
WithoutLeadingScheme(s) ==
    IF StartsWith(s, IpfsPrefix) THEN Tail0(s, Len(IpfsPrefix) + 1) ELSE s

\* C9: verify(uri, expected_hash) is true iff the two strings are equal
\* after the leading "ipfs://" is stripped from each, nothing else altered.
VerifyComparesBareCids ==
    vpc = "returned" =>
      (vresult <=> WithoutLeadingScheme(vuri) = WithoutLeadingScheme(vexpected))

(***************************************************************************)
(* Properties of upload_json.                                              *)
(***************************************************************************)
\* what a returned upload_json call gave: None or Some(cid)
UploadValueOf(c) == The(ujexit[c].value)
\* whether json can serialize the dict
Serializable(data) == \A i \in 1..Len(data) : data[i].value.kind = "int"
\* the put call of upload_json was made with the serialization of data and
\* the MIME type application/json
PutCalledWithJson(c) ==
    /\ Len(putCalls[c]) = 1
    /\ putCalls[c][1].blob = The(JsonDumps(ujargs[c].data))
    /\ putCalls[c][1].mime = Some(JsonMime)
    /\ args[c].blob = putCalls[c][1].blob
    /\ args[c].mime = Some(JsonMime)
\* upload_json returned what its put call's result projects to
ReturnsCidOrNone(c) ==
    /\ pc[c] = "returned"
    /\ ResultOf(c).success => UploadValueOf(c) = Some(ResultOf(c).cid)
    /\ ~ResultOf(c).success => UploadValueOf(c) = None

\* C11, as stated: upload_json never raises, and a call that has returned
\* has called put exactly once, with the JSON serialization of data and
\* application/json, and returned the cid of a success and None for a
\* failure.
UploadJsonCallsPutOnce ==
    \A c \in Callers :
      /\ ujpc[c] # "raised"
      /\ ujexit[c].raised = None
      /\ ujpc[c] = "returned" => PutCalledWithJson(c) /\ ReturnsCidOrNone(c)

\* C11, amended: upload_json never raises and calls put at most once; for
\* data json can serialize, a call that has returned has called put exactly
\* once, with the serialization and application/json, and returned the cid
\* of a success and None for a failure; for data json cannot serialize it
\* has not called put and returned None.
UploadJsonProjectsPut ==
    \A c \in Callers :
      /\ ujpc[c] # "raised"
      /\ ujexit[c].raised = None
      /\ Len(putCalls[c]) <= 1
      /\ ujpc[c] = "put" => PutCalledWithJson(c)
      /\ ujpc[c] = "returned" =>
           IF Serializable(ujargs[c].data)
             THEN PutCalledWithJson(c) /\ ReturnsCidOrNone(c)
             ELSE /\ putCalls[c] = <<>>
                  /\ pc[c] = "idle"
                  /\ spawned[c] = <<>>
                  /\ UploadValueOf(c) = None

\* upload_json({"a": 1}) returned the root CID the tool printed
UploadJsonProjectsPutWitness ==
    /\ ujpc[MainCaller] = "returned"
    /\ ujargs[MainCaller].data = <<Item(<<"a">>, IntValue(1))>>
    /\ putCalls[MainCaller][1].blob
         = <<"{","\n"," "," ","\"","a","\"",":"," ","1","\n","}">>
    /\ ResultOf(MainCaller).success
    /\ UploadValueOf(MainCaller) = Some(<<"b">>)

(***************************************************************************)
(* Properties of the constructor.                                          *)
(***************************************************************************)
\* the version command ran and exited with code 0
VersionCheckSucceeded ==
    /\ Len(versionRuns) = 1
    /\ versionRuns[1].outcome.exc = None
    /\ The(versionRuns[1].outcome.completed).returncode = 0

\* C12: the constructor runs the version command once; it gives an adapter
\* exactly when that command exited with code 0, and raises an error when
\* the executable is absent, not executable, exits non-zero or times out;
\* a put call has started, or has started a process, only on an adapter
\* whose version check succeeded.
VersionCheckGuardsPut ==
    /\ Len(versionRuns) <= 1
    /\ instance = "none" <=> versionRuns = <<>>
    /\ instance # "none" =>
         versionRuns[1].command = <<config.filecoin_pin_path, "--version">>
    /\ instance = "ready" <=> VersionCheckSucceeded
    /\ instance = "ready" => ctorExit = Returned(None)
    /\ instance = "failed" => ctorExit.raised # None
    /\ \A c \in Callers :
         (pc[c] # "idle" \/ spawned[c] # <<>> \/ tempDir[c] # None)
           => VersionCheckSucceeded

\* the executable could not be executed: the constructor raised and no put
\* call was made
VersionCheckGuardsPutWitness ==
    /\ instance = "failed"
    /\ Len(versionRuns) = 1
    /\ versionRuns[1].outcome.exc # None
    /\ The(versionRuns[1].outcome.exc).type = "PermissionError"
    /\ The(ctorExit.raised).type = "PermissionError"
    /\ \A c \in Callers : pc[c] = "idle" /\ spawned[c] = <<>>

(***************************************************************************)
(* Properties of delete.                                                   *)
(***************************************************************************)
\* C13: every delete call returns False, and the step of a delete call
\* sends no request, starts no process, leaves every temporary directory
\* and file as it was and changes nothing of the adapter or of the put,
\* get and upload_json calls, whenever it is made.
DeleteChangesNothing ==
    /\ [](dresult # None => The(dresult) = FALSE)
    /\ [][dcalls' # dcalls =>
            /\ dresult' = Some(FALSE)
            /\ requests' = requests
            /\ spawned' = spawned
            /\ dirs' = dirs
            /\ UNCHANGED <<putVars, ctorVars, uploadVars, getVars, verifyVars>>]_vars

\* delete was called twice, the last time on the uri of stored content,
\* after a put that removed its directory and a get that asked a gateway
DeleteChangesNothingWitness ==
    /\ dcalls >= 2
    /\ dresult = Some(FALSE)
    /\ duri = IpfsPrefix \o <<"b">>
    /\ pc[MainCaller] = "returned"
    /\ ResultOf(MainCaller).success
    /\ spawned[MainCaller] # <<>>
    /\ gpc = "returned"
    /\ requests # <<>>

(***************************************************************************)
(* Properties of concurrent put calls.                                     *)
(***************************************************************************)
\* the put call of c holds a temporary directory
HoldsTempDir(c) == pc[c] \in {"write", "run"}
\* the step is one of the put call of c
StepOf(c) == pc'[c] # pc[c]
\* what belongs to the put call of c
CallState(c) == <<pc[c], args[c], tempDir[c], spawned[c], proc[c], exit[c]>>

\* C14: while put calls of several callers interleave, a call that holds a
\* temporary directory holds one it created and no other call holds; every
\* command a call starts names the payload file in its own directory; a
\* step of one call leaves the directories created by other calls, and
\* everything of the other calls, as they were; the result of a call whose
\* process exited is computed from that exit and the call's own arguments;
\* no step changes the configuration.
ConcurrentPutsIsolated ==
    /\ [](\A c \in Callers :
            HoldsTempDir(c) =>
              /\ The(tempDir[c]) \in DOMAIN dirs
              /\ dirs[The(tempDir[c])].owner = c
              /\ \A o \in Callers \ {c} :
                   HoldsTempDir(o) => tempDir[o] # tempDir[c])
    /\ [](\A c \in Callers : \A i \in 1..Len(spawned[c]) :
            spawned[c][i] = BuildCommand(config, <<The(tempDir[c]), args[c].payload_filename>>))
    /\ [](\A c \in Callers :
            (pc[c] = "returned" /\ HasExited(c)) =>
              ResultOf(c) = CompletedResult(ExitedOf(c), args[c].blob, args[c].mime,
                                            args[c].tags, args[c].payload_filename))
    /\ [][\A c \in Callers :
            StepOf(c) =>
              /\ \A d \in DOMAIN dirs :
                   dirs[d].owner # c => d \in DOMAIN dirs' /\ dirs'[d] = dirs[d]
              /\ \A d \in DOMAIN dirs' :
                   d \notin DOMAIN dirs => dirs'[d].owner = c
              /\ \A o \in Callers \ {c} : CallState(o)' = CallState(o)
              /\ config' = config]_vars

\* one call has succeeded and removed its directory while the other still
\* holds its own, with its own payload in it
ConcurrentPutsIsolatedWitness ==
    /\ pc["t1"] = "returned"
    /\ ResultOf("t1").success
    /\ The(tempDir["t1"]) \notin DOMAIN dirs
    /\ pc["t2"] = "run"
    /\ tempDir["t2"] # tempDir["t1"]
    /\ args["t2"].blob # args["t1"].blob
    /\ dirs[The(tempDir["t2"])].files
         = {[name |-> args["t2"].payload_filename, content |-> args["t2"].blob]}
====
